---- MODULE Spec2Model ----
(***************************************************************************)
(* Model of django_solr.dsl.backend: the result-row projector              *)
(* (SolrSearchResult.to_dict and its helpers, SolrSearchQuerySet.fields /  *)
(* post_process_results) and the nested query builder (ParentSQ); of       *)
(* django_solr.dsl.indexes: the shared field defaults and                  *)
(* SolrDocument.get; and of the index bookkeeping: the actions of          *)
(* django_solr.admin.IndexesAdmin and django_solr.views.FetchIndexesView.  *)
(*                                                                         *)
(* Python values are tagged records, so that values of different Python    *)
(* types can be compared:  None, str (a sequence of one-character          *)
(* strings), int, bool, dict (a function from key names to values) and     *)
(* list (a sequence of values).  A raised exception is the value Raise(e). *)
(***************************************************************************)
EXTENDS Integers, Sequences, FiniteSets, TLC

(* ------------------------------ bounds --------------------------------- *)
\* longest raw list of nested documents a row carries for the field x
MaxList == 2
\* number of to_dict calls recorded on the row
MaxCalls == 2
\* longest dotted path (in characters) handed to ParentSQ
MaxPathLen == 5

\* largest number of records of a model (qs.count())
MaxTotal == 3
\* largest backend.batch_size
MaxBatch == 2
\* number of admin actions run
MaxActions == 2

\* the number of concurrent requests to FetchIndexesView.post
MaxRequests == 2

(* --------------------------- Python values ----------------------------- *)
None == [t |-> "none"]

StrV(s) == [t |-> "str", s |-> s]

IntV(n) == [t |-> "int", n |-> n]

BoolV(b) == [t |-> "bool", b |-> b]

DictV(d) == [t |-> "dict", d |-> d]

ListV(l) == [t |-> "list", l |-> l]

Raise(e) == [t |-> "raise", e |-> e]

EmptyDict == DictV([k \in {} |-> None])

IsRaise(v) == v.t = "raise"

\* Python truthiness (bool(v)), as used by `if not nested`, `if value`,
\* `if self._fields`
Truthy(v) ==
    CASE v.t = "none" -> FALSE
      [] v.t = "str"  -> Len(v.s) > 0
      [] v.t = "int"  -> v.n # 0
      [] v.t = "bool" -> v.b
      [] v.t = "dict" -> DOMAIN v.d # {}
      [] v.t = "list" -> Len(v.l) > 0
      [] OTHER        -> TRUE

\* d[k] = v on a Python dict (d and v are bound as values, so that each is
\* evaluated once)
DictSet(d, k, v) ==
    CHOOSE f \in {[j \in (DOMAIN dd) \cup {k} |-> IF j = k THEN vv ELSE dd[j]] :
                      dd \in {d}, vv \in {v}} : TRUE

\* d.get(k)
DictGet(d, k) == IF k \in DOMAIN d THEN d[k] ELSE None

(* ------------------------------ strings -------------------------------- *)
Digits == <<"0", "1", "2", "3", "4", "5", "6", "7", "8", "9">>

IsDigit(c) == \E i \in 1..10 : Digits[i] = c

DigitVal(c) == (CHOOSE i \in 1..10 : Digits[i] = c) - 1

AllDigits(s) == \A i \in 1..Len(s) : IsDigit(s[i])

RECURSIVE ParseNat(_)
\* int(s) for a non-empty string of decimal digits
ParseNat(s) ==
    IF Len(s) = 0 THEN 0
    ELSE 10 * ParseNat(SubSeq(s, 1, Len(s) - 1)) + DigitVal(s[Len(s)])

RECURSIVE NatToStr(_)
\* str(n) for n >= 0
NatToStr(n) ==
    IF n < 10 THEN <<Digits[n + 1]>>
    ELSE NatToStr(n \div 10) \o <<Digits[(n % 10) + 1]>>

RECURSIVE ZeroPad(_, _)
\* "%0<w>d" formatting of a digit string
ZeroPad(s, w) == IF Len(s) >= w THEN s ELSE ZeroPad(<<"0">> \o s, w)

RECURSIVE SplitFrom(_, _, _)
SplitFrom(s, sep, cur) ==
    IF Len(s) = 0 THEN <<cur>>
    ELSE IF s[1] = sep THEN <<cur>> \o SplitFrom(Tail(s), sep, <<>>)
    ELSE SplitFrom(Tail(s), sep, Append(cur, s[1]))

\* s.split(sep): always at least one segment, empty segments are kept
Split(s, sep) == SplitFrom(s, sep, <<>>)

RECURSIVE Join(_, _)
\* sep.join(parts) for a sequence of strings
Join(parts, sep) ==
    IF Len(parts) = 0 THEN <<>>
    ELSE IF Len(parts) = 1 THEN parts[1]
    ELSE parts[1] \o sep \o Join(Tail(parts), sep)

\* needle in hay (substring test)
Contains(hay, needle) ==
    \E i \in 0..(Len(hay) - Len(needle)) :
        SubSeq(hay, i + 1, i + Len(needle)) = needle

(* -------------------------- field conversion --------------------------- *)
\* haystack CharField.convert: None stays None, anything else goes through str()
ConvertChar(v) ==
    CASE v.t = "none" -> None
      [] v.t = "str"  -> v
      [] v.t = "int"  -> StrV(NatToStr(v.n))
      [] v.t = "bool" -> StrV(IF v.b THEN <<"T", "r", "u", "e">>
                                     ELSE <<"F", "a", "l", "s", "e">>)
      [] OTHER        -> v

\* haystack IntegerField.convert: None stays None, anything else goes through int()
ConvertInteger(v) ==
    CASE v.t = "none" -> None
      [] v.t = "int"  -> v
      [] v.t = "bool" -> IntV(IF v.b THEN 1 ELSE 0)
      [] v.t = "str"  -> IF Len(v.s) > 0 /\ AllDigits(v.s)
                         THEN IntV(ParseNat(v.s))
                         ELSE Raise("ValueError")
      [] OTHER        -> Raise("TypeError")

\* the tail a DATE_REGEX match may carry after YYYY-MM-DD: nothing,
\* "T00:00:00" or "T00:00:00Z"
MidnightTail == <<"T", "0", "0", ":", "0", "0", ":", "0", "0">>

\* DATE_REGEX.match(s): ^\d{4}-\d{2}-\d{2}(?:|T00:00:00Z?)$
DateMatch(s) ==
    /\ Len(s) >= 10
    /\ AllDigits(SubSeq(s, 1, 4)) /\ s[5] = "-"
    /\ AllDigits(SubSeq(s, 6, 7)) /\ s[8] = "-"
    /\ AllDigits(SubSeq(s, 9, 10))
    /\ SubSeq(s, 11, Len(s)) \in {<<>>, MidnightTail, MidnightTail \o <<"Z">>}

IsLeap(y) == (y % 4 = 0 /\ y % 100 # 0) \/ y % 400 = 0

DaysIn(y, m) ==
    IF m = 2 THEN (IF IsLeap(y) THEN 29 ELSE 28)
    ELSE IF m \in {4, 6, 9, 11} THEN 30 ELSE 31

\* DateField.convert: a string matching DATE_REGEX is rebuilt as a date and
\* formatted with FORMAT = "%Y-%m-%d"; anything else is returned unchanged
ConvertDate(v) ==
    IF v.t = "str" /\ DateMatch(v.s)
    THEN LET y == ParseNat(SubSeq(v.s, 1, 4))
             m == ParseNat(SubSeq(v.s, 6, 7))
             d == ParseNat(SubSeq(v.s, 9, 10))
         IN  IF y >= 1 /\ m \in 1..12 /\ d >= 1 /\ d <= DaysIn(y, m)
             THEN StrV(ZeroPad(NatToStr(y), 4) \o <<"-">>
                       \o ZeroPad(NatToStr(m), 2) \o <<"-">>
                       \o ZeroPad(NatToStr(d), 2))
             ELSE Raise("ValueError")
    ELSE v

\* field.convert(value), dispatched on the descriptor's class
convert(field, v) ==
    CASE field.kind = "char"    -> ConvertChar(v)
      [] field.kind = "integer" -> ConvertInteger(v)
      [] field.kind = "date"    -> ConvertDate(v)
      [] OTHER                  -> v

(* ------------------------- the document projector ---------------------- *)
\* is_need_dump_field testing `self._fields is not None` instead of its truth
is_need_dump_field_given(sf, field_name) ==
    IF sf.t # "none" THEN \E i \in 1..Len(sf.l) : sf.l[i] = field_name
    ELSE TRUE

\* is_need_dump_field that never consults self._fields
is_need_dump_field_all(sf, field_name) == TRUE

\* SolrSearchResult.is_need_dump_field; sf is self._fields (None or a list)
is_need_dump_field(sf, field_name) ==
    IF Truthy(sf) THEN \E i \in 1..Len(sf.l) : sf.l[i] = field_name
    ELSE TRUE

\* the default is never substituted
substitute_default_never(field, value) == value

\* `if value is None and field.has_default(): value = field.default`
substitute_default(field, value) ==
    IF value.t = "none" /\ field.hasDefault THEN field.default ELSE value

RECURSIVE _nested_to_dict(_, _, _, _)
RECURSIVE _single_nested_to_dict(_, _, _, _)
RECURSIVE _multiple_nested_to_dict(_, _, _, _)
RECURSIVE SingleNestedLoop(_, _, _, _, _, _)
RECURSIVE MultipleNestedLoop(_, _, _, _, _, _)

\* one iteration of the loop of _single_nested_to_dict: the value stored for
\* the property p whose raw value is `value`, or the exception raised
PropertyValue(p, value, fields_only, sf) ==
    IF p.kind = "nested"
    THEN _nested_to_dict(p, value, fields_only, sf)
    ELSE convert(p, substitute_default(p, value))

\* _dict[field_name] = v, and for a property bound to the model's primary
\* key also _dict[model_field.name] = _dict[field_name]
StoreProperty(acc, p, v) ==
    IF p.kind # "nested" /\ p.pk # ""
    THEN DictSet(DictSet(acc, p.name, v), p.pk, v)
    ELSE DictSet(acc, p.name, v)

\* the for loop of _single_nested_to_dict over field.properties.items(),
\* from the i-th property on, with _dict = acc (v is bound to the value of
\* the iteration)
SingleNestedLoop(field, i, nested, fields_only, sf, acc) ==
    IF i > Len(field.props) THEN DictV(acc)
    ELSE IF fields_only /\ ~is_need_dump_field(sf, field.props[i].name)
    THEN SingleNestedLoop(field, i + 1, nested, fields_only, sf, acc)
    ELSE IF nested.t # "dict" THEN Raise("AttributeError")
    ELSE CHOOSE res \in
             {IF IsRaise(v) THEN v
              ELSE SingleNestedLoop(field, i + 1, nested, fields_only, sf,
                                    StoreProperty(acc, field.props[i], v)) :
              v \in {PropertyValue(field.props[i],
                                   DictGet(nested.d, field.props[i].name),
                                   fields_only, sf)}} : TRUE

\* _single_nested_to_dict that never applies the allowlist to the properties
_single_nested_to_dict_unfiltered(field, nested, fields_only, sf) ==
    IF ~Truthy(nested) THEN EmptyDict
    ELSE SingleNestedLoop(field, 1, nested, FALSE, sf, [k \in {} |-> None])

\* SolrSearchResult._single_nested_to_dict
_single_nested_to_dict(field, nested, fields_only, sf) ==
    IF ~Truthy(nested) THEN EmptyDict
    ELSE SingleNestedLoop(field, 1, nested, fields_only, sf, [k \in {} |-> None])

\* the for loop of _multiple_nested_to_dict, from the i-th element on, with
\* _list = acc
MultipleNestedLoop(field, i, nested, fields_only, sf, acc) ==
    IF i > Len(nested.l) THEN ListV(acc)
    ELSE CHOOSE res \in
             {IF IsRaise(v) THEN v
              ELSE MultipleNestedLoop(field, i + 1, nested, fields_only, sf,
                                      Append(acc, v)) :
              v \in {_single_nested_to_dict(field, nested.l[i],
                                            fields_only, sf)}} : TRUE

\* SolrSearchResult._multiple_nested_to_dict
_multiple_nested_to_dict(field, nested, fields_only, sf) ==
    IF ~Truthy(nested) THEN ListV(<<>>)
    ELSE MultipleNestedLoop(field, 1, nested, fields_only, sf, <<>>)

\* _nested_to_dict that does not wrap a single mapping of a multi-valued field
_nested_to_dict_unwrapped(field, nested, fields_only, sf) ==
    IF nested.t = "none"
    THEN (IF field.hasDefault THEN field.default ELSE None)
    ELSE IF nested.t = "list"
    THEN _multiple_nested_to_dict(field, nested, fields_only, sf)
    ELSE IF nested.t = "dict"
    THEN _single_nested_to_dict(field, nested, fields_only, sf)
    ELSE Raise("ValueError")

\* SolrSearchResult._nested_to_dict
_nested_to_dict(field, nested, fields_only, sf) ==
    IF nested.t = "none"
    THEN (IF field.hasDefault THEN field.default ELSE None)
    ELSE IF nested.t = "list"
    THEN _multiple_nested_to_dict(field, nested, fields_only, sf)
    ELSE IF nested.t = "dict"
    THEN CHOOSE res \in
             {IF IsRaise(value) THEN value
              ELSE IF field.multi THEN ListV(<<value>>) ELSE value :
              value \in {_single_nested_to_dict(field, nested,
                                                fields_only, sf)}} : TRUE
    ELSE Raise("ValueError")

(* ------------------------- declared documents -------------------------- *)
\* haystack.constants.DOCUMENT_FIELD
DOCUMENT_FIELD == "text"

\* a non-nested field descriptor; pk is model_field.name when the bound model
\* field is a primary key, "" otherwise
LeafField(name, kind, hasDefault, default, pk) ==
    [name |-> name, kind |-> kind, hasDefault |-> hasDefault,
     default |-> default, multi |-> FALSE, props |-> <<>>, pk |-> pk]

\* a NestedField descriptor with its properties (in declaration order)
NestedField(name, multi, hasDefault, default, props) ==
    [name |-> name, kind |-> "nested", hasDefault |-> hasDefault,
     default |-> default, multi |-> multi, props |-> props, pk |-> ""]

\* z = NestedField(properties={y: DateField, n: CharField}) over a
\* ManyToManyField: set_fields_attributes makes it multi-valued with
\* _default = list(); n takes its model field's default 0
ZField ==
    NestedField("z", TRUE, TRUE, ListV(<<>>),
                <<LeafField("y", "date", FALSE, None, ""),
                  LeafField("n", "char", TRUE, IntV(0), "")>>)

\* properties of x: a date, an integer bound to the related model's primary
\* key `id` (model_attr="id"), and the nested z
XProperties ==
    <<LeafField("y", "date", FALSE, None, ""),
      LeafField("ident", "integer", FALSE, None, "id"),
      ZField>>

\* document A: text, code = CharField (model default 7), x over a ForeignKey
\* (set_fields_attributes gives it _default = dict())
IndexA ==
    [registered |-> TRUE,
     fields |-> <<LeafField("text", "char", FALSE, None, ""),
                  LeafField("code", "char", TRUE, IntV(7), ""),
                  NestedField("x", FALSE, TRUE, EmptyDict, XProperties)>>]

\* document B: declares a field named like the model's primary key (`id`),
\* x over a relation that gets no default, and code without default
IndexB ==
    [registered |-> TRUE,
     fields |-> <<LeafField("id", "char", FALSE, None, ""),
                  LeafField("text", "char", FALSE, None, ""),
                  NestedField("x", FALSE, FALSE, None, XProperties),
                  LeafField("code", "char", FALSE, None, "")>>]

\* get_index(self.model) raises NotHandled: no document registered for the model
NoIndex == [registered |-> FALSE, fields |-> <<>>]

Indexes == {IndexA, IndexB, NoIndex}

\* self.model._meta.pk.attname
PkAttname == "id"

(* ---------------------------- raw result rows -------------------------- *)
IsoDate ==
    <<"2", "0", "2", "4", "-", "0", "1", "-", "0", "1",
      "T", "0", "0", ":", "0", "0", ":", "0", "0", "Z">>

BadScalar == StrV(<<"s">>)

EmptyRawMap == DictV([k \in {} |-> None])

\* raw nested documents stored under z
ZMapN == DictV([k \in {"n"} |-> IntV(2)])

ZMapY == DictV([k \in {"y"} |-> StrV(IsoDate)])

\* raw nested documents stored under x
XMapLeaf == DictV([k \in {"y", "ident"} |->
                     IF k = "y" THEN StrV(IsoDate) ELSE StrV(<<"7">>)])

XMapZOne == DictV([k \in {"z"} |-> ZMapN])

XMapZTwo == DictV([k \in {"z"} |-> ListV(<<ZMapN, ZMapY>>)])

XMapZBad == DictV([k \in {"z"} |-> BadScalar])

XMapZStrs == DictV([k \in {"z"} |-> ListV(<<BadScalar>>)])

XMaps == {EmptyRawMap, XMapLeaf, XMapZOne, XMapZTwo, XMapZBad, XMapZStrs}

\* what a raw list under x may hold
XElems == {XMapLeaf, XMapZOne, BadScalar}

RECURSIVE SeqsUpTo(_, _)
SeqsUpTo(S, n) ==
    IF n = 0 THEN {<<>>}
    ELSE LET shorter == SeqsUpTo(S, n - 1) IN
         shorter \cup {Append(q, e) : q \in {r \in shorter : Len(r) = n - 1}, e \in S}

XRaw == {None, BadScalar} \cup XMaps \cup {ListV(l) : l \in SeqsUpTo(XElems, MaxList)}

\* django_id values (the model's primary key as stored in the index)
PkStrings == {<<"4", "2">>}

\* the composite identifier "<app>.<model>.<pk>"
CompositeId(pk) == <<"a", ".", "m", ".">> \o pk

\* the row's attributes: what SearchResult.__init__ puts in __dict__
RawRows ==
    {[k \in {"id", "pk", "text", "code", "x"} |->
        CASE k = "id"   -> StrV(CompositeId(pk))
          [] k = "pk"   -> StrV(pk)
          [] k = "text" -> text
          [] k = "code" -> code
          [] k = "x"    -> x] :
     pk \in PkStrings, text \in {None, StrV(<<"b">>)},
     code \in {None, IntV(3)}, x \in XRaw}

\* argument lists handed to SolrSearchQuerySet.fields
FieldsArgs ==
    {<<>>, <<"code">>, <<"x">>, <<"x", "z", "y">>}

(* -------------------------------- state -------------------------------- *)
VARIABLES
    index,      \* the document the unified index holds for the row's model
    row,        \* the attributes of the SolrSearchResult (read-only)
    sf,         \* the row's _fields: None until post_process_results sets it
    qs,         \* SolrSearchQuerySet._fields
    cache,      \* the row's _dict: the memoized dict object, if any
    nextOid,    \* identity of the next dict object to_dict creates
    calls       \* the to_dict calls made on the row, in order: the flag
                \* passed, the _fields the projection ran with (None for a
                \* call that did not run it), and the outcome

VARIABLES
    sq,         \* the ParentSQ object: children and the parsed attributes
    sqExc,      \* the exception the last ParentSQ construction raised, or ""
    frag        \* what the last as_query_string call returned, or None

VARIABLES
    rows,       \* the raw rows of a result page (read-only)
    xDefault,   \* the dict object held by the _default of the x descriptor
    dicts,      \* per row of the page: its _dict, and whether its x is the
                \* descriptor's default object itself
    last        \* the last operation on the page and the row it was on

VARIABLES
    store,      \* the records the index holds for the document's model
    got         \* the SolrDocument.get call made, if any, and its outcome

VARIABLES
    table,      \* the rows of the Indexes table, by guid
    solr,       \* per backend and model: the number of documents indexed
    installed,  \* the model labels apps.get_model resolves
    total,      \* qs.count(): the number of records of a model
    batch_size, \* backend.batch_size
    now,        \* datetime.now()
    messages,   \* the messages added to the admin's requests, in order
    propagated, \* the exception the last admin action let out, or ""
    batches,    \* the batches the last admin action handed to haystack's
                \* do_update, per backend and record
    lastRun     \* the last admin action run: its number, name, selection and
                \* the step that raised in it

VARIABLES
    requests    \* per request in FetchIndexesView.post: where it stands, the
                \* pass of the loops it is in, its hints and record, the
                \* number of the last admin action run when it read the
                \* table, and the exception it let out

vars == <<index, row, sf, qs, cache, nextOid, calls, sq, sqExc, frag,
          rows, xDefault, dicts, last, store, got,
          table, solr, installed, total, batch_size, now, messages,
          propagated, batches, lastRun, requests>>

projVars == <<index, row, sf, qs, cache, nextOid, calls>>

sqVars == <<sq, sqExc, frag>>

shareVars == <<rows, xDefault, dicts, last>>

getVars == <<store, got>>

adminVars == <<table, solr, installed, total, batch_size, now, messages,
               propagated, batches, lastRun>>

fetchVars == <<requests>>

\* what the operations on the single row leave alone
notProj == <<sqVars, shareVars, getVars, adminVars, fetchVars>>

\* what the operations on a ParentSQ leave alone
notSQ == <<projVars, shareVars, getVars, adminVars, fetchVars>>

\* what the operations on a page of rows leave alone
notShare == <<projVars, sqVars, getVars, adminVars, fetchVars>>

\* what SolrDocument.get leaves alone
notGet == <<projVars, sqVars, shareVars, adminVars, fetchVars>>

\* what the admin actions leave alone
notAdmin == <<projVars, sqVars, shareVars, getVars, fetchVars>>

EmptyFn == [k \in {} |-> None]

\* self._dict is None
NoCache == [set |-> FALSE, oid |-> 0, d |-> EmptyFn]

\* int(s), as IntegerField.to_python / int() apply it to a string
ToPythonInt(s) ==
    IF Len(s) > 0 /\ AllDigits(s) THEN IntV(ParseNat(s))
    ELSE Raise("ValidationError")

\* django_id without the coercion by the primary key field
django_id_uncoerced(r) ==
    LET segs == Split(r["id"].s, ".") IN StrV(segs[Len(segs)])

\* SolrSearchResult.django_id: the final segment of self.id.split("."),
\* coerced by the primary key field's to_python
django_id(r) ==
    LET segs == Split(r["id"].s, ".") IN ToPythonInt(segs[Len(segs)])

\* one iteration of the loop of to_dict: the value stored for the field f
\* whose raw value is `value`, or the exception raised
FieldValue(f, value, fields_inheritance, fs) ==
    IF f.kind = "nested"
    THEN _nested_to_dict(f, value, fields_inheritance, fs)
    ELSE convert(f, substitute_default(f, value))

RECURSIVE ToDictLoop(_, _, _, _, _, _)
\* the for loop of to_dict over index.fields.items(), from the i-th field on,
\* filling self._dict = acc in place; exc names the exception that ends it
\* (v is bound to the value of the iteration)
ToDictLoop(fields, i, r, fields_inheritance, fs, acc) ==
    IF i > Len(fields) THEN [d |-> acc, exc |-> ""]
    ELSE IF ~is_need_dump_field(fs, fields[i].name)
    THEN ToDictLoop(fields, i + 1, r, fields_inheritance, fs, acc)
    ELSE IF fields[i].name = DOCUMENT_FIELD /\ ~Truthy(DictGet(r, fields[i].name))
    THEN ToDictLoop(fields, i + 1, r, fields_inheritance, fs, acc)
    ELSE CHOOSE res \in
             {IF IsRaise(v) THEN [d |-> acc, exc |-> v.e]
              ELSE ToDictLoop(fields, i + 1, r, fields_inheritance, fs,
                              DictSet(acc, fields[i].name, v)) :
              v \in {FieldValue(fields[i], DictGet(r, fields[i].name),
                                fields_inheritance, fs)}} : TRUE

\* the two entries to_dict starts self._dict with
PkEntries(r, id) ==
    [k \in {"pk", PkAttname} |-> IF k = "pk" THEN r["pk"] ELSE id]

\* the projection that also memoizes the empty dict of a row whose model
\* has no document
project_caching_unhandled(fields_inheritance) ==
    IF ~index.registered
    THEN [computed |-> FALSE, exc |-> "", oid |-> nextOid, out |-> EmptyFn,
          newCache |-> [set |-> TRUE, oid |-> nextOid, d |-> EmptyFn],
          fresh |-> TRUE]
    ELSE IF IsRaise(django_id(row))
    THEN [computed |-> TRUE, exc |-> django_id(row).e, oid |-> 0,
          out |-> EmptyFn, newCache |-> cache, fresh |-> FALSE]
    ELSE CHOOSE c \in
             {[computed |-> TRUE, exc |-> res.exc,
               oid |-> IF res.exc = "" THEN nextOid ELSE 0,
               out |-> IF res.exc = "" THEN res.d ELSE EmptyFn,
               newCache |-> [set |-> TRUE, oid |-> nextOid, d |-> res.d],
               fresh |-> TRUE] :
              res \in {ToDictLoop(index.fields, 1, row, fields_inheritance,
                                  sf, PkEntries(row, django_id(row)))}} : TRUE

\* the body of `if self._dict is None:` in to_dict: the outcome of running
\* the projection in the current state.
\* computed - the call ran the projection (an index was found);
\* exc - the exception raised ("" if the call returned); oid, out - the
\* identity and the content of the dict returned; newCache - self._dict
\* afterwards; fresh - a new dict object was created
project(fields_inheritance) ==
    IF ~index.registered
    THEN [computed |-> FALSE, exc |-> "", oid |-> nextOid, out |-> EmptyFn,
          newCache |-> cache, fresh |-> TRUE]
    ELSE IF IsRaise(django_id(row))
    THEN [computed |-> TRUE, exc |-> django_id(row).e, oid |-> 0,
          out |-> EmptyFn, newCache |-> cache, fresh |-> FALSE]
    ELSE CHOOSE c \in
             {[computed |-> TRUE, exc |-> res.exc,
               oid |-> IF res.exc = "" THEN nextOid ELSE 0,
               out |-> IF res.exc = "" THEN res.d ELSE EmptyFn,
               newCache |-> [set |-> TRUE, oid |-> nextOid, d |-> res.d],
               fresh |-> TRUE] :
              res \in {ToDictLoop(index.fields, 1, row, fields_inheritance,
                                  sf, PkEntries(row, django_id(row)))}} : TRUE

\* to_dict that never looks at self._dict and projects on every call
to_dict_uncached(fields_inheritance) == project(fields_inheritance)

\* the outcome of one to_dict(fields_inheritance) call in the current state:
\* the memoized dict if there is one, the projection otherwise
to_dict(fields_inheritance) ==
    IF cache.set
    THEN [computed |-> FALSE, exc |-> "", oid |-> cache.oid, out |-> cache.d,
          newCache |-> cache, fresh |-> FALSE]
    ELSE project(fields_inheritance)

(* ------------------------ the nested query builder --------------------- *)
\* class EMPTY: the marker of an attribute not parsed yet
EMPTY == [t |-> "EMPTY"]

\* no ParentSQ constructed yet
NoSQ == [t |-> "ParentSQ", made |-> FALSE, children |-> <<>>,
         full_path |-> EMPTY, value |-> EMPTY,
         path |-> EMPTY, key |-> EMPTY]

\* all the elements of a list are str
AllStr(l) == \A i \in 1..Len(l) : l[i].t = "str"

\* ParentSQ._parse_args on children[0] = (full_path, value): the attributes
\* it sets, or the exception it raises
_parse_args(full_path, value) ==
    IF value.t = "list" /\ ~AllStr(value.l)
    THEN Raise("TypeError")
    ELSE LET v == IF value.t = "list"
                  THEN StrV(Join([i \in 1..Len(value.l) |-> value.l[i].s], <<" ">>))
                  ELSE value
             items == Split(full_path, ".")
             path_items == SubSeq(items, 1, Len(items) - 1)
         IN  [t |-> "ParentSQ", made |-> TRUE,
              children |-> <<<<full_path, value>>>>,
              full_path |-> StrV(full_path), value |-> v,
              path |-> StrV(<<"/">> \o Join(path_items, <<"/">>)),
              key |-> StrV(items[Len(items)])]

\* django.utils.encoding.force_str on the values the builder is handed
force_str(v) ==
    CASE v.t = "str"  -> v.s
      [] v.t = "int"  -> NatToStr(v.n)
      [] v.t = "bool" -> IF v.b THEN <<"T", "r", "u", "e">>
                         ELSE <<"F", "a", "l", "s", "e">>
      [] OTHER        -> <<"N", "o", "n", "e">>

ParentClause ==
    <<"{", "!", "p", "a", "r", "e", "n", "t", " ", "w", "h", "i", "c",
    "h", "=", "\"", "*", ":", "*", " ", "-", "_", "n", "e", "s", "t",
    "_", "p", "a", "t", "h", "_", ":", "*", "\"", "}">>

NestPathPrefix ==
    <<"+", "_", "n", "e", "s", "t", "_", "p", "a", "t", "h", "_", ":",
    "\"">>

\* the clause +_nest_path_:"<p>"
NestPathClause(p) == NestPathPrefix \o p \o <<"\"">>

\* the clause +<field>:(<text>)
TermClause(field, text) == <<"+">> \o field \o <<":", "(">> \o text \o <<")">>

\* _repr_query_fragment_callback that never substitutes /<key> for the root
_repr_query_fragment_callback_path(o, field, value) ==
    LET queries == IF Truthy(value)
                   THEN <<NestPathClause(o.path.s),
                          TermClause(field, force_str(value))>>
                   ELSE <<NestPathClause(o.path.s)>>
    IN  ParentClause \o <<" ", "(">> \o Join(queries, <<" ">>) \o <<")">>

\* ParentSQ._repr_query_fragment_callback(field, filter_type, value) on the
\* object o
_repr_query_fragment_callback(o, field, value) ==
    LET nest_path == IF o.path.s = <<"/">> THEN <<"/">> \o o.key.s ELSE o.path.s
        queries == IF Truthy(value)
                   THEN <<NestPathClause(nest_path),
                          TermClause(field, force_str(value))>>
                   ELSE <<NestPathClause(nest_path)>>
    IN  ParentClause \o <<" ", "(">> \o Join(queries, <<" ">>) \o <<")">>

\* ParentSQ.as_query_string
as_query_string(o) == _repr_query_fragment_callback(o, o.key.s, o.value)

PathChars == {"a", "b", "."}

\* the dotted paths: every string over PathChars of at most MaxPathLen characters
Paths == SeqsUpTo(PathChars, MaxPathLen)

\* a str value that holds query syntax: x) +b:(y
Breakout == StrV(<<"x", ")", " ", "+", "b", ":", "(", "y">>)

\* filter values: absent, empty and non-empty strings (one holding query
\* syntax), numbers, booleans and lists
SQValues ==
    {None, StrV(<<>>), StrV(<<"x">>), Breakout,
     IntV(0), IntV(5), BoolV(FALSE), BoolV(TRUE),
     ListV(<<>>), ListV(<<StrV(<<"x">>)>>),
     ListV(<<StrV(<<"x">>), StrV(<<"y">>)>>), ListV(<<IntV(1)>>)}

(* ------------------------------- actions ------------------------------- *)
\* no to_dict call made yet on a row whose model has no document
ProjIdle ==
    /\ index = NoIndex
    /\ row = CHOOSE r \in RawRows : TRUE
    /\ sf = None
    /\ qs = ListV(<<>>)
    /\ cache = NoCache
    /\ nextOid = 1
    /\ calls = <<>>

\* no ParentSQ built
SQIdle ==
    /\ sq = NoSQ
    /\ sqExc = ""
    /\ frag = None

\* no dict built for a row of the page
NoDict == [set |-> FALSE, sharedX |-> FALSE, d |-> EmptyFn]

\* no page of rows fetched
ShareIdle ==
    /\ rows = [r \in {} |-> None]
    /\ xDefault = EmptyDict
    /\ dicts = [r \in {} |-> NoDict]
    /\ last = [op |-> "init", row |-> 0]

\* no SolrDocument.get call made
NoGet == [called |-> FALSE, args |-> <<>>, kwargs |-> EmptyFn, fields |-> None,
          out |-> [exc |-> "", pk_name |-> "", result |-> None, _fields |-> None]]

\* SolrDocument.get not called, on an empty index
GetIdle ==
    /\ store = {}
    /\ got = NoGet

\* no step raises
NoFault == [at |-> "none", backend |-> 0]

\* no admin action run
NoRun == [seq |-> 0, action |-> "", sel |-> {}, fault |-> NoFault]

\* no bookkeeping table, no admin action run
\* no request is in FetchIndexesView.post
FetchIdle == requests = <<>>

AdminIdle ==
    /\ table = <<>>
    /\ solr = <<>>
    /\ installed = {}
    /\ total = 0
    /\ batch_size = 1
    /\ now = 1
    /\ messages = <<>>
    /\ propagated = ""
    /\ batches = <<>>
    /\ lastRun = NoRun

Init ==
    /\ index \in Indexes
    /\ row \in RawRows
    /\ sf = None
    /\ qs = ListV(<<>>)
    /\ cache = NoCache
    /\ nextOid = 1
    /\ calls = <<>>
    /\ SQIdle
    /\ ShareIdle
    /\ GetIdle
    /\ AdminIdle /\ FetchIdle

\* SolrSearchQuerySet.fields(*fields)
Fields(args) ==
    /\ qs' = ListV(args)
    /\ UNCHANGED <<index, row, sf, cache, nextOid, calls, notProj>>

\* SolrSearchQuerySet.post_process_results: setattr(result, "_fields", self._fields)
PostProcessResults ==
    /\ sf' = qs
    /\ UNCHANGED <<index, row, qs, cache, nextOid, calls, notProj>>

\* one call of SolrSearchResult.to_dict on the row
ToDict(fields_inheritance) ==
    /\ Len(calls) < MaxCalls
    /\ \E c \in {to_dict(fields_inheritance)} :
       /\ cache' = c.newCache
       /\ nextOid' = IF c.fresh THEN nextOid + 1 ELSE nextOid
       /\ calls' = Append(calls,
                     [inh |-> fields_inheritance,
                      ran |-> IF c.computed THEN sf ELSE None,
                      computed |-> c.computed, exc |-> c.exc,
                      oid |-> c.oid, out |-> c.out])
    /\ UNCHANGED <<index, row, sf, qs, notProj>>

Next ==
    \/ \E args \in FieldsArgs : Fields(args)
    \/ PostProcessResults
    \/ \E fi \in BOOLEAN : ToDict(fi)

Spec == Init /\ [][Next]_vars

\* ParentSQ(**{full_path: value}), the one construction of the object:
\* __init__ runs _parse_args; an exception leaves no object behind
Construct(full_path, value) ==
    LET o == _parse_args(full_path, value) IN
    /\ ~sq.made /\ sqExc = ""
    /\ IF IsRaise(o)
       THEN sq' = NoSQ /\ sqExc' = o.e
       ELSE sq' = o /\ sqExc' = ""
    /\ frag' = None

\* SolrSearchQuerySet.nested(**kwargs)
Nested(full_path, value) ==
    /\ Construct(full_path, value)
    /\ UNCHANGED notSQ

\* SolrSearchQuerySet.nested_exists(nested)
NestedExists(full_path) ==
    /\ Construct(full_path, None)
    /\ UNCHANGED notSQ

\* ParentSQ.as_query_string on the constructed object
AsQueryString ==
    /\ sq.made
    /\ frag' = StrV(as_query_string(sq))
    /\ UNCHANGED <<sq, sqExc>>
    /\ UNCHANGED notSQ

InitSQ ==
    /\ ProjIdle
    /\ SQIdle
    /\ ShareIdle
    /\ GetIdle
    /\ AdminIdle /\ FetchIdle

NextSQ ==
    \/ \E p \in Paths, v \in SQValues : Nested(p, v)
    \/ \E p \in Paths : NestedExists(p)
    \/ AsQueryString

SpecSQ == InitSQ /\ [][NextSQ]_vars

(* ---------------- projections of several rows of one document ---------- *)
\* the rows of one result page
Rows == {1, 2}

\* the keys a caller writes into the x of an output dict
MutKeys == {"k", "j", "m"}

\* raw rows of document A that differ in x only: null or a mapping
SharedRows ==
    {r \in RawRows : /\ r["text"] = None /\ r["code"] = None
                     /\ r["x"] \in {None, XMapLeaf}}

\* document A, its x descriptor holding the present content of the dict
\* object set_fields_attributes stored in x._default
IndexNow == [IndexA EXCEPT !.fields[3].default = xDefault]

\* the dict row r's to_dict returned, as it reads now: a null raw x was given
\* the descriptor's default object itself
View(r) ==
    IF dicts[r].sharedX THEN [dicts[r].d EXCEPT !["x"] = xDefault]
    ELSE dicts[r].d

\* to_dict() on row r (no allowlist, fields_inheritance = False): the first
\* call builds the dict, a later call returns it
ToDictRow(r) ==
    /\ IF dicts[r].set THEN UNCHANGED dicts
       ELSE \E res \in {ToDictLoop(IndexNow.fields, 1, rows[r], FALSE, None,
                                   PkEntries(rows[r], django_id(rows[r])))} :
                dicts' = [dicts EXCEPT ![r] =
                             [set |-> TRUE,
                              sharedX |-> rows[r]["x"] = None
                                            /\ IndexNow.fields[3].hasDefault,
                              d |-> res.d]]
    /\ last' = [op |-> "to_dict", row |-> r]
    /\ UNCHANGED <<rows, xDefault>>
    /\ UNCHANGED notShare

\* a caller of to_dict writes into the dict it got for row r:
\* row.to_dict()["x"][k] = 1
MutateOutput(r, k) ==
    /\ dicts[r].set
    /\ IF dicts[r].sharedX
       THEN /\ xDefault' = DictV(DictSet(xDefault.d, k, IntV(1)))
            /\ UNCHANGED dicts
       ELSE /\ dicts' = [dicts EXCEPT ![r].d["x"] =
                            DictV(DictSet(dicts[r].d["x"].d, k, IntV(1)))]
            /\ UNCHANGED xDefault
    /\ last' = [op |-> "mutate", row |-> r]
    /\ UNCHANGED rows
    /\ UNCHANGED notShare

InitShared ==
    /\ ProjIdle /\ SQIdle /\ GetIdle /\ AdminIdle /\ FetchIdle
    /\ rows \in [Rows -> SharedRows]
    /\ xDefault = IndexA.fields[3].default
    /\ dicts = [r \in Rows |-> NoDict]
    /\ last = [op |-> "init", row |-> 0]

NextShared ==
    \/ \E r \in Rows : ToDictRow(r)
    \/ \E r \in Rows, k \in MutKeys : MutateOutput(r, k)

SpecShared == InitShared /\ [][NextShared]_vars

(* --------------------------- SolrDocument.get -------------------------- *)
\* haystack.constants.ID and DJANGO_ID
ID == "id"

DJANGO_ID == "django_id"

\* pk_fields = (ID, DJANGO_ID, "guid", "uuid")
pk_fields == <<ID, DJANGO_ID, "guid", "uuid">>

\* the values a key is looked up by: zero, the empty string, and two others
KeyValues == {IntV(0), StrV(<<>>), IntV(1), IntV(2)}

\* the records the index of the model may hold
IndexRecord(i, d, g) ==
    [id |-> i, django_id |-> d, guid |-> g, uuid |-> g]

IndexRecords ==
    {IndexRecord(IntV(0), IntV(0), StrV(<<>>)),
     IndexRecord(IntV(1), IntV(1), IntV(1)),
     IndexRecord(IntV(2), IntV(1), IntV(2))}

\* the keyword arguments of a call: any of the four key names, each with a value
KeywordArgs == UNION {[S -> KeyValues] : S \in SUBSET {"id", "django_id", "guid", "uuid"}}

\* the positional arguments of a call: none or one
PositionalArgs == {<<>>} \cup {<<v>> : v \in KeyValues}

\* the `fields` keyword of a call: absent (None) or a list of names
FieldsKeyword == {None, ListV(<<"code">>)}

RECURSIVE PkNameLoop(_, _)
\* `for pk_name in pk_fields: if kwargs.get(pk_name): ... break`, from the
\* i-th name on: the name the loop breaks on, or "" when it runs to its else
PkNameLoop(kwargs, i) ==
    IF i > Len(pk_fields) THEN ""
    ELSE IF Truthy(DictGet(kwargs, pk_fields[i])) THEN pk_fields[i]
    ELSE PkNameLoop(kwargs, i + 1)

\* cls.search().filter(**{pk_name: pk}) on the records of the index
Filter(records, pk_name, pk) == {r \in records : r[pk_name] = pk}

\* SolrDocument.get(*args, **kwargs): the exception raised ("" if none), the
\* key looked up by, and the result returned with the _fields it carries
get(args, kwargs, fields, records) ==
    LET pk_name == IF Len(args) > 0 THEN DJANGO_ID ELSE PkNameLoop(kwargs, 1)
        pk      == IF Len(args) > 0 THEN args[1] ELSE DictGet(kwargs, pk_name)
        search  == Filter(records, pk_name, pk)
        count   == Cardinality(search)
    IN  IF pk_name = ""
        THEN [exc |-> "AttributeError", pk_name |-> "", result |-> None,
              _fields |-> None]
        ELSE IF count = 0
        THEN [exc |-> "NotFoundError", pk_name |-> pk_name, result |-> None,
              _fields |-> None]
        ELSE IF count > 1
        THEN [exc |-> "MultipleResultError", pk_name |-> pk_name,
              result |-> None, _fields |-> None]
        ELSE [exc |-> "", pk_name |-> pk_name,
              result |-> CHOOSE r \in search : TRUE,
              _fields |-> IF Truthy(fields) THEN fields ELSE ListV(<<>>)]

\* one call of SolrDocument.get
Get(args, kwargs, fields) ==
    /\ ~got.called
    /\ got' = [called |-> TRUE, args |-> args, kwargs |-> kwargs,
               fields |-> fields, out |-> get(args, kwargs, fields, store)]
    /\ UNCHANGED store
    /\ UNCHANGED notGet

InitGet ==
    /\ ProjIdle /\ SQIdle /\ ShareIdle /\ AdminIdle /\ FetchIdle
    /\ store \in SUBSET IndexRecords
    /\ got = NoGet

NextGet ==
    \E args \in PositionalArgs, kwargs \in KeywordArgs, fields \in FieldsKeyword :
        Get(args, kwargs, fields)

SpecGet == InitGet /\ [][NextGet]_vars

(* ------------------- index bookkeeping: the admin actions -------------- *)
\* haystack_connections.connections_info.keys(), in order; SolrSearchQuerySet()
\* counts on the first one
BackendNames == <<"default", "second">>

\* the models of the two bookkeeping rows
ModelLabels == <<"app.A", "app.B">>

\* a row of the Indexes table
IndexesRow(guid, document, model, hints, updated_at) ==
    [guid |-> guid, document |-> document, model |-> model,
     hints |-> hints, updated_at |-> updated_at]

\* the table before any admin action: one row per document, fetched and
\* indexed at time 0 with one hint
InitialTable ==
    [g \in 1..2 |->
        IndexesRow(g, IF g = 1 THEN "ADoc" ELSE "BDoc", ModelLabels[g], 1, IntV(0))]

\* the indexes before any admin action: one document per model and backend
InitialSolr ==
    [b \in {BackendNames[i] : i \in 1..Len(BackendNames)} |->
        [m \in {ModelLabels[i] : i \in 1..Len(ModelLabels)} |-> 1]]

\* the step of _clear_index that raises: backend.clear on one backend, or
\* the bulk_update
ClearFaults ==
    {[at |-> "clear", backend |-> i] : i \in 1..Len(BackendNames)}
        \cup {[at |-> "clear_persist", backend |-> 0]}

\* the step of _update_index that raises: the first call do_update makes to
\* one backend, or the bulk_update that follows the do_update on it
UpdateFaults ==
    {[at |-> a, backend |-> i] :
        a \in {"update", "update_persist"}, i \in 1..Len(BackendNames)}

RECURSIVE Sorted(_)
\* the selected rows, in the order of the queryset
Sorted(sel) ==
    IF sel = {} THEN <<>>
    ELSE <<CHOOSE x \in sel : \A y \in sel : x <= y>>
             \o Sorted(sel \ {CHOOSE x \in sel : \A y \in sel : x <= y})

\* apps.get_model(app_label, model_name) raises LookupError for some record
LookupFails(sel, tbl) == \E g \in sel : tbl[g].model \notin installed

\* the models of the selected records
ModelsOf(sel, tbl) == {tbl[g].model : g \in sel}

\* backend.clear(models=models_to_delete, commit=True) done on the first k backends
Cleared(slr, models, k) ==
    [b \in DOMAIN slr |->
        IF \E i \in 1..k : BackendNames[i] = b
        THEN [m \in DOMAIN slr[b] |-> IF m \in models THEN 0 ELSE slr[b][m]]
        ELSE slr[b]]

\* Indexes.objects.bulk_update(queryset, ["hints", "updated_at"]) with the
\* records mem held in memory
bulk_update(tbl, sel, mem) ==
    [g \in DOMAIN tbl |->
        IF g \in sel
        THEN [tbl[g] EXCEPT !.hints = mem[g].hints,
                            !.updated_at = mem[g].updated_at]
        ELSE tbl[g]]

\* _clear_index that persists the rows before it clears the backends
_clear_index_persist_first(sel, fault, tbl, slr) ==
    IF LookupFails(sel, tbl)
    THEN [exc |-> "LookupError", table |-> tbl, solr |-> slr, mem |-> tbl]
    ELSE CHOOSE res \in
        {IF fault.at = "clear_persist"
         THEN [exc |-> "clear_persist", table |-> tbl, solr |-> slr, mem |-> mem]
         ELSE IF fault.at = "clear"
         THEN [exc |-> "clear", table |-> bulk_update(tbl, sel, mem),
               solr |-> Cleared(slr, ModelsOf(sel, tbl), fault.backend - 1),
               mem |-> mem]
         ELSE [exc |-> "", table |-> bulk_update(tbl, sel, mem),
               solr |-> Cleared(slr, ModelsOf(sel, tbl), Len(BackendNames)),
               mem |-> mem] :
         mem \in {[g \in DOMAIN tbl |->
                      IF g \in sel
                      THEN [tbl[g] EXCEPT !.hints = 0, !.updated_at = None]
                      ELSE tbl[g]]}} : TRUE

\* IndexesAdmin._clear_index(queryset): the exception raised ("" if none),
\* the table and the indexes afterwards, and the records held in memory
_clear_index(sel, fault, tbl, slr) ==
    IF LookupFails(sel, tbl)
    THEN [exc |-> "LookupError", table |-> tbl, solr |-> slr, mem |-> tbl]
    ELSE CHOOSE res \in
        {IF fault.at = "clear"
         THEN [exc |-> "clear", table |-> tbl,
               solr |-> Cleared(slr, ModelsOf(sel, tbl), fault.backend - 1),
               mem |-> mem]
         ELSE IF fault.at = "clear_persist"
         THEN [exc |-> "clear_persist", table |-> tbl,
               solr |-> Cleared(slr, ModelsOf(sel, tbl), Len(BackendNames)),
               mem |-> mem]
         ELSE [exc |-> "", table |-> bulk_update(tbl, sel, mem),
               solr |-> Cleared(slr, ModelsOf(sel, tbl), Len(BackendNames)),
               mem |-> mem] :
         mem \in {[g \in DOMAIN tbl |->
                      IF g \in sel
                      THEN [tbl[g] EXCEPT !.hints = 0, !.updated_at = None]
                      ELSE tbl[g]]}} : TRUE

RECURSIVE RangeLoop(_, _, _, _, _)
RECURSIVE RangeLoop_unclamped(_, _, _, _, _)
\* the range loop with end = start + batch_size, not clamped to total
RangeLoop_unclamped(start, tot, size, max_pk, acc) ==
    IF start >= tot THEN acc
    ELSE RangeLoop_unclamped(start + size, tot, size, IntV(start + size),
                             Append(acc, [start |-> start, end |-> start + size,
                                          last_max_pk |-> max_pk]))

\* `for start in range(0, total, batch_size)` of do_update from start on,
\* with max_pk: the batches handed to haystack's do_update, each with the
\* last_max_pk it receives; a batch returns the pk of its last record
RangeLoop(start, tot, size, max_pk, acc) ==
    IF start >= tot THEN acc
    ELSE RangeLoop(start + size, tot, size,
                   IntV(IF start + size < tot THEN start + size ELSE tot),
                   Append(acc, [start |-> start,
                                end |-> IF start + size < tot THEN start + size
                                        ELSE tot,
                                last_max_pk |-> max_pk]))

\* the batches of one record
Batches(tot, size) == RangeLoop(0, tot, size, None, <<>>)

\* the index of backend b after the update of the selected models
Updated(slr, models, b) ==
    [slr EXCEPT ![b] = [m \in DOMAIN slr[b] |->
                           IF m \in models THEN total ELSE slr[b][m]]]

\* index.search().count() for the model: the count on the first connection
SearchCount(slr, model) == slr[BackendNames[1]][model]

\* the records in memory after IndexesAdmin.do_update(backend, queryset)
AfterDoUpdate(mem, sel, slr) ==
    [g \in DOMAIN mem |->
        IF g \in sel
        THEN [mem[g] EXCEPT !.hints = SearchCount(slr, mem[g].model),
                            !.updated_at = IntV(now)]
        ELSE mem[g]]

\* the selected records do_update gets through before apps.get_model raises
\* LookupError: all of them if it never does
Reached(sel, mem) ==
    {g \in sel : \A h \in sel : h <= g => mem[h].model \in installed}

\* the batches do_update issues on backend i for the records sel
BatchLog(i, sel) ==
    [k \in 1..Len(Sorted(sel)) |->
        [backend |-> BackendNames[i], guid |-> Sorted(sel)[k],
         batches |-> Batches(total, batch_size)]]

RECURSIVE UpdateLoop(_, _, _, _, _, _, _)
\* `for backend_name in self.backends()` of _update_index from the i-th
\* backend on
UpdateLoop(i, sel, fault, tbl, slr, mem, log) ==
    IF i > Len(BackendNames)
    THEN [exc |-> "", table |-> tbl, solr |-> slr, log |-> log]
    ELSE IF fault.at = "update" /\ fault.backend = i
    THEN [exc |-> "update", table |-> tbl, solr |-> slr, log |-> log]
    ELSE IF LookupFails(sel, mem)
    THEN [exc |-> "LookupError", table |-> tbl,
          solr |-> Updated(slr, ModelsOf(Reached(sel, mem), mem), BackendNames[i]),
          log |-> log \o BatchLog(i, Reached(sel, mem))]
    ELSE CHOOSE res \in
        {IF fault.at = "update_persist" /\ fault.backend = i
         THEN [exc |-> "update_persist", table |-> tbl, solr |-> s,
               log |-> log \o BatchLog(i, sel)]
         ELSE UpdateLoop(i + 1, sel, fault,
                         bulk_update(tbl, sel, AfterDoUpdate(mem, sel, s)),
                         s, AfterDoUpdate(mem, sel, s),
                         log \o BatchLog(i, sel)) :
         s \in {Updated(slr, ModelsOf(sel, mem), BackendNames[i])}} : TRUE

\* IndexesAdmin._update_index(queryset) on the records mem held in memory
_update_index(sel, fault, tbl, slr, mem) ==
    UpdateLoop(1, sel, fault, tbl, slr, mem, <<>>)

\* the message an action adds for the outcome out
Message(out, done, failed) ==
    IF out.exc = "" THEN [level |-> "INFO", text |-> done, error |-> ""]
    ELSE [level |-> "ERROR", text |-> failed, error |-> out.exc]

\* clear_indexes without its try/except
clear_indexes_uncaught(sel, fault) ==
    CHOOSE res \in
        {[table |-> out.table, solr |-> out.solr, log |-> <<>>,
          messages |-> IF out.exc = ""
                       THEN <<Message(out, "Successfully cleared",
                                      "Clearing error occured")>>
                       ELSE <<>>,
          propagated |-> out.exc] :
         out \in {_clear_index(sel, fault, table, solr)}} : TRUE

\* clear_indexes(request, queryset)
clear_indexes(sel, fault) ==
    CHOOSE res \in
        {[table |-> out.table, solr |-> out.solr, log |-> <<>>,
          messages |-> <<Message(out, "Successfully cleared",
                                 "Clearing error occured")>>,
          propagated |-> ""] :
         out \in {_clear_index(sel, fault, table, solr)}} : TRUE

\* update_indexes(request, queryset)
update_indexes(sel, fault) ==
    CHOOSE res \in
        {[table |-> out.table, solr |-> out.solr, log |-> out.log,
          messages |-> <<Message(out, "Successfully updated",
                                 "Update error occured")>>,
          propagated |-> ""] :
         out \in {_update_index(sel, fault, table, solr, table)}} : TRUE

\* rebuild_indexes(request, queryset)
rebuild_indexes(sel, fault) ==
    CHOOSE res \in
        {IF c.exc # ""
         THEN [table |-> c.table, solr |-> c.solr, log |-> <<>>,
               messages |-> <<Message(c, "Successfully rebuilt",
                                      "Rebuilding error occured")>>,
               propagated |-> ""]
         ELSE CHOOSE r \in
             {[table |-> out.table, solr |-> out.solr, log |-> out.log,
               messages |-> <<Message(out, "Successfully rebuilt",
                                      "Rebuilding error occured")>>,
               propagated |-> ""] :
              out \in {_update_index(sel, fault, c.table, c.solr, c.mem)}} : TRUE :
         c \in {_clear_index(sel, fault, table, solr)}} : TRUE

\* the effect of one admin action on the state
Invoke(action, sel, fault, res) ==
    /\ table' = res.table
    /\ solr' = res.solr
    /\ batches' = res.log
    /\ messages' = messages \o res.messages
    /\ propagated' = res.propagated
    /\ now' = now + 1
    /\ lastRun' = [seq |-> lastRun.seq + 1, action |-> action, sel |-> sel,
                   fault |-> fault]
    /\ UNCHANGED <<installed, total, batch_size>>

\* the admin runs "Clear selected indexes" on the selected rows
ClearIndexes(sel, fault) ==
    /\ lastRun.seq < MaxActions
    /\ \E res \in {clear_indexes(sel, fault)} : Invoke("clear", sel, fault, res)
    /\ UNCHANGED notAdmin

\* the admin runs "Rebuild selected indexes"
RebuildIndexes(sel, fault) ==
    /\ lastRun.seq < MaxActions
    /\ \E res \in {rebuild_indexes(sel, fault)} : Invoke("rebuild", sel, fault, res)
    /\ UNCHANGED notAdmin

\* the admin runs "Update selected indexes"
UpdateIndexes(sel, fault) ==
    /\ lastRun.seq < MaxActions
    /\ \E res \in {update_indexes(sel, fault)} : Invoke("update", sel, fault, res)
    /\ UNCHANGED notAdmin

\* the non-empty selections of rows of the table
Selections == (SUBSET DOMAIN table) \ {{}}

InitAdmin ==
    /\ ProjIdle /\ SQIdle /\ ShareIdle /\ GetIdle /\ FetchIdle
    /\ table = InitialTable
    /\ solr = InitialSolr
    /\ installed \in {{"app.A", "app.B"}, {"app.A"}}
    /\ total \in 0..MaxTotal
    /\ batch_size \in 1..MaxBatch
    /\ now = 1
    /\ messages = <<>>
    /\ propagated = ""
    /\ batches = <<>>
    /\ lastRun = NoRun

NextAdmin ==
    \/ \E sel \in Selections, f \in {NoFault} \cup ClearFaults :
           ClearIndexes(sel, f)
    \/ \E sel \in Selections, f \in {NoFault} \cup ClearFaults \cup UpdateFaults :
           RebuildIndexes(sel, f)
    \/ \E sel \in Selections, f \in {NoFault} \cup UpdateFaults :
           UpdateIndexes(sel, f)

SpecAdmin == InitAdmin /\ [][NextAdmin]_vars

(* ------------- index bookkeeping: the synchronization endpoint --------- *)
\* haystack_get_models(label) for the one installed app, in order
FetchModels == <<"app.A", "app.B", "app.C">>

\* unified_index.get_index(model) raises NotHandled: the model has no index
NotHandled(model) == model \notin {ModelLabels[i] : i \in 1..Len(ModelLabels)}

\* index.__class__.__name__ of the index of a model
DocumentName(model) == IF model = "app.A" THEN "ADoc" ELSE "BDoc"

\* the passes of the three nested loops of post, in order: one label, every
\* backend, every model of the label
Items ==
    [k \in 1..(Len(BackendNames) * Len(FetchModels)) |->
        [using |-> BackendNames[((k - 1) \div Len(FetchModels)) + 1],
         model |-> FetchModels[((k - 1) % Len(FetchModels)) + 1]]]

\* a request that has entered post and stands before the first pass
NewRequest ==
    [pc |-> "loop", item |-> 1, hints |-> 0, record |-> None,
     seen |-> 0, exc |-> ""]

\* the concurrent requests
Requests == 1..MaxRequests

\* the model of the pass request r is in
ModelAt(r) == Items[requests[r].item].model

\* the rows Indexes.objects.get(document=...) matches
Matching(tbl, document) == {g \in DOMAIN tbl : tbl[g].document = document}

\* what a step of a request leaves alone
notFetch == <<projVars, sqVars, shareVars, getVars, solr, installed, total,
              batch_size, now, messages, propagated, batches, lastRun>>

\* get_index raises NotHandled: continue with the next model
Continue(r) ==
    /\ requests[r].pc = "loop"
    /\ requests[r].item <= Len(Items)
    /\ NotHandled(ModelAt(r))
    /\ requests' = [requests EXCEPT ![r].item = @ + 1]
    /\ UNCHANGED <<table, notFetch>>

\* hints = index.search().count()
Count(r) ==
    /\ requests[r].pc = "loop"
    /\ requests[r].item <= Len(Items)
    /\ ~NotHandled(ModelAt(r))
    /\ requests' = [requests EXCEPT ![r].hints = SearchCount(solr, ModelAt(r)),
                                    ![r].pc = "get_or_create"]
    /\ UNCHANGED <<table, notFetch>>

\* get_or_create: the SELECT of self.get(document=...); no row sends it on
\* to create, several rows raise MultipleObjectsReturned out of post
GetOrCreate(r) ==
    /\ requests[r].pc = "get_or_create"
    /\ \E found \in {Matching(table, DocumentName(ModelAt(r)))} :
           requests' =
               [requests EXCEPT ![r] =
                   IF found = {}
                   THEN [@ EXCEPT !.pc = "create", !.seen = lastRun.seq]
                   ELSE IF Cardinality(found) = 1
                   THEN [@ EXCEPT !.pc = "save", !.seen = lastRun.seq,
                                  !.record = table[CHOOSE g \in found : TRUE]]
                   ELSE [@ EXCEPT !.pc = "raised",
                                  !.exc = "MultipleObjectsReturned"]]
    /\ UNCHANGED <<table, notFetch>>

\* get_or_create: the INSERT of self.create(document=..., **defaults), with
\* a fresh guid; no constraint of Indexes rejects a second row of a document
Create(r) ==
    /\ requests[r].pc = "create"
    /\ table' = Append(table,
                       IndexesRow(Len(table) + 1, DocumentName(ModelAt(r)),
                                  ModelAt(r), requests[r].hints, None))
    /\ requests' = [requests EXCEPT ![r].pc = "loop", ![r].item = @ + 1]
    /\ UNCHANGED notFetch

\* record.hints = hints; record.save(): the UPDATE writes every column of
\* the record held in memory
Save(r) ==
    /\ requests[r].pc = "save"
    /\ table' = [table EXCEPT ![requests[r].record.guid] =
                    [requests[r].record EXCEPT !.hints = requests[r].hints]]
    /\ requests' = [requests EXCEPT ![r].pc = "loop", ![r].item = @ + 1,
                                    ![r].record = None]
    /\ UNCHANGED notFetch

\* return super().post(request, *args, **kwargs)
Return(r) ==
    /\ requests[r].pc = "loop"
    /\ requests[r].item > Len(Items)
    /\ requests' = [requests EXCEPT ![r].pc = "done"]
    /\ UNCHANGED <<table, notFetch>>

InitFetch ==
    /\ ProjIdle /\ SQIdle /\ ShareIdle /\ GetIdle
    /\ table \in {<<>>, InitialTable}
    /\ solr = InitialSolr
    /\ installed = {ModelLabels[i] : i \in 1..Len(ModelLabels)}
    /\ total = MaxTotal
    /\ batch_size = MaxBatch
    /\ now = 1
    /\ messages = <<>>
    /\ propagated = ""
    /\ batches = <<>>
    /\ lastRun = NoRun
    /\ requests = [r \in Requests |-> NewRequest]

NextFetch ==
    \/ \E r \in Requests : Continue(r)
    \/ \E r \in Requests : Count(r)
    \/ \E r \in Requests : GetOrCreate(r)
    \/ \E r \in Requests : Create(r)
    \/ \E r \in Requests : Save(r)
    \/ \E r \in Requests : Return(r)
    \/ \E sel \in Selections : UpdateIndexes(sel, NoFault)

SpecFetch == InitFetch /\ [][NextFetch]_vars

(* ============================== properties ============================= *)
CallIds == 1..Len(calls)

\* the call returned a dict (it did not raise)
Returned(c) == c.exc = ""

\* the call ran the projection to its end and returned its result
Projected(c) == c.computed /\ c.exc = ""

\* the names the document declares at top level
Declared == {index.fields[i].name : i \in 1..Len(index.fields)}

\* the two keys to_dict starts every projection with
PkKeys == {"pk", PkAttname}

\* the document-body field of the row is empty
EmptyDocumentField == ~Truthy(DictGet(row, DOCUMENT_FIELD))

\* the declared top-level names other than an empty document-body field
DeclaredButEmptyBody ==
    {n \in Declared : ~(n = DOCUMENT_FIELD /\ EmptyDocumentField)}

\* the names of a Python list of names
Names(l) == {l.l[i] : i \in 1..Len(l.l)}

(* ---- C1 ---- *)
\* C1 as stated: for every row, any two to_dict calls that return give
\* deep-equal dicts and the later one returns the very dict object the
\* earlier one returned.
C1_Original ==
    \A i \in CallIds : \A j \in CallIds :
        (i < j /\ Returned(calls[i]) /\ Returned(calls[j]))
            => /\ calls[i].out = calls[j].out
               /\ calls[i].oid = calls[j].oid

\* C1, amended: any two to_dict calls on a row that return give deep-equal
\* dicts; they are the same cached dict object when the row's model has a
\* registered index, and two different (empty) dict objects when it has none.
C1_Idempotent ==
    \A i \in CallIds : \A j \in CallIds :
        (i < j /\ Returned(calls[i]) /\ Returned(calls[j]))
            => /\ calls[i].out = calls[j].out
               /\ index.registered => calls[i].oid = calls[j].oid
               /\ ~index.registered =>
                      /\ calls[i].oid # calls[j].oid
                      /\ calls[j].out = EmptyFn

\* a row of a registered model projected twice: the first call ran the
\* projection (nested field included), the second returned
C1_Witness ==
    /\ index.registered
    /\ Len(calls) >= 2
    /\ Projected(calls[1]) /\ "x" \in DOMAIN calls[1].out
    /\ Returned(calls[2]) /\ ~calls[2].computed

(* ---- C2 ---- *)
\* C2 as stated: a projection run with an allowlist that is given but empty
\* produces exactly the two primary-key entries.
C2_Original ==
    \A i \in CallIds :
        (Projected(calls[i]) /\ calls[i].ran = ListV(<<>>))
            => DOMAIN calls[i].out = PkKeys

\* C2, amended: an allowlist that is given but empty is treated as no
\* allowlist: the projection has the two primary-key entries and every
\* declared top-level field (other than an empty document-body field).
C2_EmptyAllowlistEmitsAll ==
    \A i \in CallIds :
        (Projected(calls[i]) /\ calls[i].ran = ListV(<<>>))
            => DOMAIN calls[i].out = PkKeys \cup DeclaredButEmptyBody

\* a projection run after post_process_results handed the row the empty list
C2_Witness ==
    \E i \in CallIds :
        /\ Projected(calls[i]) /\ calls[i].ran = ListV(<<>>)
        /\ {"code", "x"} \subseteq DOMAIN calls[i].out

(* ---- C3 ---- *)
\* C3 as stated: under a non-empty allowlist A a declared top-level field f
\* is a key of the projection only if f is in A; with no allowlist set every
\* declared top-level field (other than an empty document-body field) is.
C3_Original ==
    \A i \in CallIds :
        Projected(calls[i]) =>
            /\ Truthy(calls[i].ran) =>
                   \A f \in Declared :
                       f \in DOMAIN calls[i].out => f \in Names(calls[i].ran)
            /\ calls[i].ran = None =>
                   DeclaredButEmptyBody \subseteq DOMAIN calls[i].out

\* C3, amended: under a non-empty allowlist A a declared top-level field f is
\* a key of the projection only if f is in A or f is one of the two
\* always-present primary-key keys (pk, the primary key's attribute name);
\* every declared field in A (other than an empty document-body field) is a
\* key; with no allowlist set every declared top-level field (other than an
\* empty document-body field) is.
C3_AllowlistFilters ==
    \A i \in CallIds :
        Projected(calls[i]) =>
            /\ Truthy(calls[i].ran) =>
                   \A f \in Declared :
                       /\ f \in DOMAIN calls[i].out
                              => f \in Names(calls[i].ran) \cup PkKeys
                       /\ (f \in Names(calls[i].ran) /\ f \in DeclaredButEmptyBody)
                              => f \in DOMAIN calls[i].out
            /\ calls[i].ran = None =>
                   DeclaredButEmptyBody \subseteq DOMAIN calls[i].out

\* a projection under the allowlist ["code"] of a document that also declares
\* x: code is a key, x is not
C3_Witness ==
    \E i \in CallIds :
        /\ Projected(calls[i]) /\ calls[i].ran = ListV(<<"code">>)
        /\ "x" \in Declared
        /\ "code" \in DOMAIN calls[i].out /\ "x" \notin DOMAIN calls[i].out

(* ---- nested documents of a projection ---- *)
\* the declared top-level nested fields whose key is in the projection out
EmittedNested(out) ==
    {index.fields[i] : i \in {j \in 1..Len(index.fields) :
                                 /\ index.fields[j].kind = "nested"
                                 /\ index.fields[j].name \in DOMAIN out}}

\* the value is the same Python value (same type, same content)
Same(v, w) == v.t = w.t /\ v = w

RECURSIVE Docs(_, _, _)
\* the nested documents under the field f: every raw mapping m found under the
\* raw value, at any depth, with the descriptor f it belongs to and the dict p
\* it was projected to
Docs(f, raw, proj) ==
    LET DocsOf(m, p) ==
            {[f |-> f, m |-> m, p |-> p]} \cup
            UNION {Docs(f.props[i], DictGet(m.d, f.props[i].name),
                        p.d[f.props[i].name]) :
                   i \in {j \in 1..Len(f.props) :
                              /\ f.props[j].kind = "nested"
                              /\ f.props[j].name \in DOMAIN p.d}}
    IN  IF raw.t = "dict"
        THEN DocsOf(raw, IF f.multi THEN proj.l[1] ELSE proj)
        ELSE IF raw.t = "list"
        THEN UNION {DocsOf(raw.l[i], proj.l[i]) : i \in 1..Len(raw.l)}
        ELSE {}

\* all the nested documents of the row, with their projections in out
AllDocs(out) ==
    UNION {Docs(f, DictGet(row, f.name), out[f.name]) : f \in EmittedNested(out)}

\* the names of the properties a nested field declares
PropertyNames(f) == {f.props[i].name : i \in 1..Len(f.props)}

(* ---- C4 ---- *)
\* C4 as stated: under an allowlist that contains the nested field x, with
\* fields_inheritance = false every declared child is a key of the projection
\* of every raw mapping under x, at every depth; with fields_inheritance =
\* true a declared child is a key only if its own name is in the allowlist,
\* so the allowlist [x] projects every mapping under x to an empty dict.
C4_Original ==
    \A i \in CallIds :
        (Projected(calls[i]) /\ Truthy(calls[i].ran)
                             /\ "x" \in Names(calls[i].ran)
                             /\ "x" \in DOMAIN calls[i].out)
        => \A n \in AllDocs(calls[i].out) :
               /\ ~calls[i].inh => PropertyNames(n.f) \subseteq DOMAIN n.p.d
               /\ calls[i].inh =>
                      \A c \in PropertyNames(n.f) :
                          c \in DOMAIN n.p.d => c \in Names(calls[i].ran)
               /\ (calls[i].inh /\ Names(calls[i].ran) = {"x"})
                      => n.p = EmptyDict

\* C4, amended: as C4, but with fields_inheritance = false the declared
\* children are all emitted for every NON-EMPTY raw mapping under x only: an
\* empty raw mapping is projected to an empty dict whatever the flag.
C4_Inheritance ==
    \A i \in CallIds :
        (Projected(calls[i]) /\ Truthy(calls[i].ran)
                             /\ "x" \in Names(calls[i].ran)
                             /\ "x" \in DOMAIN calls[i].out)
        => \A n \in AllDocs(calls[i].out) :
               /\ (~calls[i].inh /\ Truthy(n.m))
                      => PropertyNames(n.f) \subseteq DOMAIN n.p.d
               /\ ~Truthy(n.m) => n.p = EmptyDict
               /\ calls[i].inh =>
                      \A c \in PropertyNames(n.f) :
                          c \in DOMAIN n.p.d => c \in Names(calls[i].ran)
               /\ (calls[i].inh /\ Names(calls[i].ran) = {"x"})
                      => n.p = EmptyDict

\* a projection with fields_inheritance = true under the allowlist [x, z, y]
\* of a row whose x holds two documents under z: each is projected to its y
\* alone, the declared n is left out, and so is ident one level up
C4_Witness ==
    \E i \in CallIds :
        /\ Projected(calls[i]) /\ calls[i].inh
        /\ calls[i].ran = ListV(<<"x", "z", "y">>)
        /\ row["x"] = XMapZTwo
        /\ DOMAIN calls[i].out["x"].d = {"y", "z"}
        /\ Len(calls[i].out["x"].d["z"].l) = 2
        /\ \A k \in 1..2 : DOMAIN calls[i].out["x"].d["z"].l[k].d = {"y"}

(* ---- C5 ---- *)
\* what a non-nested descriptor yields for a null raw value: its converted
\* default if it declares one, the converted null otherwise
NullValue(f) == IF f.hasDefault THEN convert(f, f.default) ELSE convert(f, None)

AllMappings(l) == \A i \in 1..Len(l) : l[i].t = "dict"

RECURSIVE Cardinality6(_, _, _, _, _)
\* the projection proj of the raw value of the nested field f has the shape
\* C6 states, and so has every nested field below it
Cardinality6(f, raw, proj, fields_only, fs) ==
    LET Below(m, p) ==
            \A k \in 1..Len(f.props) :
                (f.props[k].kind = "nested" /\ f.props[k].name \in DOMAIN p.d)
                    => Cardinality6(f.props[k], DictGet(m.d, f.props[k].name),
                                    p.d[f.props[k].name], fields_only, fs)
    IN  CASE raw.t = "none" ->
                 Same(proj, IF f.hasDefault THEN f.default ELSE None)
          [] raw.t = "list" /\ AllMappings(raw.l) ->
                 /\ proj.t = "list"
                 /\ Len(proj.l) = Len(raw.l)
                 /\ \A k \in 1..Len(raw.l) :
                        /\ proj.l[k].t = "dict"
                        /\ proj.l[k] = _single_nested_to_dict(f, raw.l[k],
                                                              fields_only, fs)
                        /\ Below(raw.l[k], proj.l[k])
          [] raw.t = "dict" ->
                 IF f.multi
                 THEN /\ proj.t = "list"
                      /\ Len(proj.l) = 1
                      /\ proj.l[1].t = "dict"
                      /\ Below(raw, proj.l[1])
                 ELSE /\ proj.t = "dict"
                      /\ Below(raw, proj)
          [] OTHER -> TRUE

\* C6: in every projection, for every emitted nested field (at any depth): a
\* raw list of N mappings is projected to a list of N dicts, the k-th being
\* the projection of the k-th mapping; a raw single mapping to a one-element
\* list when the descriptor is multi-valued and to a single dict otherwise;
\* raw null to the descriptor's default if it declares one, else to null.
C6_NestedCardinality ==
    \A i \in CallIds :
        Projected(calls[i]) =>
            \A f \in EmittedNested(calls[i].out) :
                Cardinality6(f, DictGet(row, f.name), calls[i].out[f.name],
                             calls[i].inh, calls[i].ran)

\* a projection of a row whose x is a list of two different mappings, the
\* second holding a single mapping under the multi-valued z: x is projected to
\* two dicts in that order, z to a one-element list in the second and to its
\* default (the empty list) in the first
C6_Witness ==
    \E i \in CallIds :
        /\ Projected(calls[i]) /\ ~calls[i].inh
        /\ row["x"] = ListV(<<XMapLeaf, XMapZOne>>)
        /\ Len(calls[i].out["x"].l) = 2
        /\ calls[i].out["x"].l[1].d["ident"] = IntV(7)
        /\ calls[i].out["x"].l[1].d["z"] = ListV(<<>>)
        /\ calls[i].out["x"].l[2].d["ident"] = None
        /\ Len(calls[i].out["x"].l[2].d["z"].l) = 1

(* ---- C7 ---- *)
RECURSIVE InvalidNested(_, _)
\* the raw value of the nested field f is neither null, nor a mapping, nor a
\* list whose elements are all mappings, or the raw value of a nested field
\* declared below f is not
InvalidNested(f, raw) ==
    LET Below(m) ==
            \E k \in 1..Len(f.props) :
                /\ f.props[k].kind = "nested"
                /\ InvalidNested(f.props[k], DictGet(m.d, f.props[k].name))
    IN  CASE raw.t = "none" -> FALSE
          [] raw.t = "dict" -> Below(raw)
          [] raw.t = "list" ->
                 \/ ~AllMappings(raw.l)
                 \/ \E k \in 1..Len(raw.l) : Below(raw.l[k])
          [] OTHER -> TRUE

\* the row holds an invalid raw value under one of the declared nested fields
RowInvalid ==
    \E k \in 1..Len(index.fields) :
        /\ index.fields[k].kind = "nested"
        /\ InvalidNested(index.fields[k], DictGet(row, index.fields[k].name))

\* C7: a projection that dumps every field (no allowlist in effect) raises
\* ValueError exactly when the raw value of a nested field, at any depth, is
\* neither null, nor a mapping, nor a list whose elements are all mappings.
C7_ValueErrorExactly ==
    \A i \in CallIds :
        (calls[i].computed /\ ~Truthy(calls[i].ran))
            => (calls[i].exc = "ValueError" <=> RowInvalid)

(* ---- C8 ---- *)
\* the final "."-separated segment of the row's composite identifier, as an
\* integer (the model's primary key is an integer field)
CoercedId == LET segs == Split(row["id"].s, ".") IN IntV(ParseNat(segs[Len(segs)]))

\* what the declared top-level fields named n store under n
DeclaredValues(n) ==
    {convert(index.fields[k], DictGet(row, n)) :
        k \in {j \in 1..Len(index.fields) : index.fields[j].name = n}}

\* C8 as stated: every dict to_dict returns, for every row, has the keys pk
\* and the primary key's attribute name, the latter holding the coerced final
\* segment of the composite identifier, whatever the document declares.
C8_Original ==
    \A i \in CallIds :
        Returned(calls[i]) =>
            /\ PkKeys \subseteq DOMAIN calls[i].out
            /\ calls[i].out[PkAttname] = CoercedId

\* C8, amended: for a row whose model has a registered document every dict
\* to_dict returns has the keys pk (the row's pk) and the primary key's
\* attribute name; the latter holds the coerced final segment of the composite
\* identifier unless the document declares a field of that very name that the
\* projection dumps, which then holds that field's converted raw value. For a
\* row whose model has no registered document to_dict returns an empty dict.
C8_PrimaryKeyEntries ==
    \A i \in CallIds :
        Returned(calls[i]) =>
            IF ~index.registered THEN calls[i].out = EmptyFn
            ELSE /\ PkKeys \subseteq DOMAIN calls[i].out
                 /\ calls[i].out["pk"] = row["pk"]
                 /\ calls[i].out[PkAttname] \in {CoercedId} \cup DeclaredValues(PkAttname)
                 /\ Projected(calls[i]) =>
                        IF /\ PkAttname \in Declared
                           /\ is_need_dump_field(calls[i].ran, PkAttname)
                        THEN calls[i].out[PkAttname] \in DeclaredValues(PkAttname)
                        ELSE calls[i].out[PkAttname] = CoercedId

\* a projection of a row with the composite identifier "a.m.42" for a
\* document that declares no field named like the primary key: pk is the
\* row's pk and the primary key attribute is the integer 42
C8_Witness ==
    \E i \in CallIds :
        /\ Projected(calls[i]) /\ index = IndexA
        /\ row["id"] = StrV(<<"a", ".", "m", ".", "4", "2">>)
        /\ calls[i].out["pk"] = StrV(<<"4", "2">>)
        /\ calls[i].out[PkAttname] = IntV(42)

(* ---- C9 ---- *)
\* the number of "."-separated segments of a dotted path
SegmentCount(p) == 1 + Cardinality({i \in 1..Len(p) : p[i] = "."})

\* a "/"-separated path written with "." as the separator
Dotted(p) == [i \in 1..Len(p) |-> IF p[i] = "/" THEN "." ELSE p[i]]

\* key is the last segment of the dotted path of the object and nest_path the
\* segments before it, joined with "/" after a leading "/"
KeyAndNestPath ==
    /\ \A i \in 1..Len(sq.key.s) : sq.key.s[i] # "."
    /\ sq.path.s[1] = "/"
    /\ IF SegmentCount(sq.full_path.s) = 1
       THEN sq.key.s = sq.full_path.s /\ sq.path.s = <<"/">>
       ELSE sq.full_path.s = Dotted(Tail(sq.path.s)) \o <<".">> \o sq.key.s

\* C9 as stated: for every dotted path of n segments the object has key = sn
\* and nest_path = "/" + s1/.../s(n-1), and its fragment contains
\* _nest_path_:"<nest_path>" when n >= 2 and _nest_path_:"/<key>" when n = 1.
C9_Original ==
    sq.made =>
        /\ KeyAndNestPath
        /\ frag # None =>
               IF SegmentCount(sq.full_path.s) >= 2
               THEN Contains(frag.s, NestPathClause(sq.path.s))
               ELSE Contains(frag.s, NestPathClause(<<"/">> \o sq.key.s))

\* the dotted path of the object has no segment before the key, or a single
\* empty one: its nest_path is the root "/"
RootNestPath ==
    \/ SegmentCount(sq.full_path.s) = 1
    \/ SegmentCount(sq.full_path.s) = 2 /\ sq.full_path.s[1] = "."

\* C9, amended: key and nest_path are as stated; the fragment contains
\* _nest_path_:"/<key>" whenever nest_path is the root "/", that is when
\* n = 1 and also when n = 2 and s1 is empty, and _nest_path_:"<nest_path>"
\* in every other case.
C9_NestPath ==
    sq.made =>
        /\ KeyAndNestPath
        /\ frag # None =>
               IF RootNestPath
               THEN Contains(frag.s, NestPathClause(<<"/">> \o sq.key.s))
               ELSE Contains(frag.s, NestPathClause(sq.path.s))

\* the fragment of the object built for the path a.b.a: key a, nest_path /a/b
C9_Witness ==
    /\ sq.made /\ frag # None
    /\ sq.full_path = StrV(<<"a", ".", "b", ".", "a">>)
    /\ sq.key = StrV(<<"a">>)
    /\ sq.path = StrV(<<"/", "a", "/", "b">>)
    /\ Contains(frag.s, NestPathClause(<<"/", "a", "/", "b">>))

(* ---- C10 ---- *)
\* the value the object was constructed with
GivenValue == sq.children[1][2]

\* the value as text: a list is joined with single spaces
ValueText(v) ==
    IF v.t = "list" THEN Join([i \in 1..Len(v.l) |-> v.l[i].s], <<" ">>)
    ELSE force_str(v)

\* C10: the fragment of a ParentSQ is the parent clause with the nest-path
\* clause and the term filter key:(v) exactly when the value it was given is
\* other than null, the empty string and the empty list (so also for 0 and
\* False), v being the value as text; otherwise it has the nest-path clause
\* only.
C10_TermFilter ==
    (sq.made /\ frag # None) =>
        LET np == IF sq.path.s = <<"/">> THEN <<"/">> \o sq.key.s ELSE sq.path.s
        IN  IF GivenValue \notin {None, StrV(<<>>), ListV(<<>>)}
            THEN frag.s = ParentClause \o <<" ", "(">> \o NestPathClause(np)
                            \o <<" ">> \o TermClause(sq.key.s, ValueText(GivenValue))
                            \o <<")">>
            ELSE frag.s = ParentClause \o <<" ", "(">> \o NestPathClause(np)
                            \o <<")">>

(* ---- C11 ---- *)
\* the text holds none of the characters that close or open a parenthesis or
\* a quote of the query syntax
PlainText(v) == \A i \in 1..Len(v) : v[i] \notin {"(", ")", "\""}

\* the fragment has the fixed structure
\* {!parent which=...} (+_nest_path_:"P" [+K:(V)]) with a plain text V
FixedStructure(f, p, k) ==
    LET head == ParentClause \o <<" ", "(">> \o NestPathClause(p)
        pre  == head \o <<" ", "+">> \o k \o <<":", "(">>
    IN  \/ f = head \o <<")">>
        \/ /\ Len(f) >= Len(pre) + 2
           /\ SubSeq(f, 1, Len(pre)) = pre
           /\ SubSeq(f, Len(f) - 1, Len(f)) = <<")", ")">>
           /\ PlainText(SubSeq(f, Len(pre) + 1, Len(f) - 2))

\* C11: building a ParentSQ never fails with a type error, whatever the type
\* of the value or of the elements of a list value, and every fragment has
\* the fixed structure {!parent which=...} (+_nest_path_:"P" [+K:(V)]) in
\* which the value is confined to V: no parenthesis or quote of the value
\* closes the term filter and adds a clause.
C11_ValueConfined ==
    /\ sqExc # "TypeError"
    /\ (sq.made /\ frag # None) =>
           FixedStructure(frag.s,
                          IF sq.path.s = <<"/">> THEN <<"/">> \o sq.key.s
                          ELSE sq.path.s,
                          sq.key.s)

(* ---- C12 ---- *)
\* C12: the dicts to_dict returns for different rows and the descriptors'
\* defaults share no mutable object: a write into the x of one row's output
\* changes neither the output of another row nor the default a later
\* projection of a null nested field gets.
C12_NoSharedState ==
    [][last'.op = "mutate" =>
          /\ \A s \in Rows \ {last'.row} : View(s)' = View(s)
          /\ xDefault' = xDefault]_vars

(* ---- C13 ---- *)
\* the first of the permitted key names the call supplies as a keyword, or ""
FirstSupplied(kwargs) ==
    IF \E i \in 1..Len(pk_fields) : pk_fields[i] \in DOMAIN kwargs
    THEN pk_fields[CHOOSE i \in 1..Len(pk_fields) :
                       /\ pk_fields[i] \in DOMAIN kwargs
                       /\ \A j \in 1..(i - 1) : pk_fields[j] \notin DOMAIN kwargs]
    ELSE ""

\* C13: get looks up by django_id when it is given a positional argument,
\* else by the first of id, django_id, guid, uuid supplied as a keyword,
\* whatever its value (0 and the empty string included); it raises
\* AttributeError exactly when no key is supplied, NotFoundError when no
\* record matches, MultipleResultError when several do, and returns the
\* matching record otherwise.
C13_Lookup ==
    got.called =>
        LET key == IF Len(got.args) > 0 THEN DJANGO_ID
                   ELSE FirstSupplied(got.kwargs)
            pk  == IF Len(got.args) > 0 THEN got.args[1] ELSE got.kwargs[key]
            found == {r \in store : r[key] = pk}
        IN  IF key = "" THEN got.out.exc = "AttributeError"
            ELSE /\ got.out.pk_name = key
                 /\ CASE Cardinality(found) = 0 -> got.out.exc = "NotFoundError"
                      [] Cardinality(found) > 1 ->
                             got.out.exc = "MultipleResultError"
                      [] OTHER -> got.out.exc = "" /\ got.out.result \in found

(* ---- C14 ---- *)
\* C14: once a to_dict call has computed and returned a dict for the row,
\* every later call returns that same dict object with the same content and
\* runs no projection, whatever fields_inheritance it passes and whatever
\* the row's _fields has become; for a row whose model has no registered
\* document nothing is cached and every call builds a new empty dict.
C14_FirstAccessWins ==
    /\ \A i \in CallIds : \A j \in CallIds :
           (i < j /\ Projected(calls[i])) =>
               /\ ~calls[j].computed
               /\ calls[j].exc = ""
               /\ calls[j].oid = calls[i].oid
               /\ calls[j].out = calls[i].out
    /\ ~index.registered =>
           /\ cache = NoCache
           /\ \A i \in CallIds : \A j \in CallIds :
                  i # j => /\ calls[i].oid # calls[j].oid
                           /\ calls[i].out = EmptyFn

\* a second call with the other fields_inheritance, made after the row's
\* _fields was replaced, that returned the dict of the first call although
\* a projection run now would give a different dict
C14_Witness ==
    /\ Len(calls) >= 2
    /\ Projected(calls[1])
    /\ calls[2].inh # calls[1].inh
    /\ sf # calls[1].ran
    /\ calls[2].oid = calls[1].oid
    /\ project(calls[2].inh).exc = ""
    /\ project(calls[2].inh).out # calls[2].out

(* ---- C15 ---- *)
\* a step of the last admin action raised: the model of a selected record is
\* not installed, or the step the run was given to fail at
LastRunRaised ==
    \/ lastRun.fault # NoFault
    \/ \E g \in lastRun.sel : table[g].model \notin installed

\* C15: every invocation of clear_indexes, rebuild_indexes or update_indexes
\* adds exactly one message to the request, INFO when every step completed
\* and ERROR with the text of the error when a step raised (a backend, the
\* model lookup or the bulk update), and lets no exception out.
C15_OneMessage ==
    /\ Len(messages) = lastRun.seq
    /\ propagated = ""
    /\ lastRun.seq > 0 =>
           IF LastRunRaised
           THEN /\ messages[Len(messages)].level = "ERROR"
                /\ messages[Len(messages)].error \in {"LookupError", lastRun.fault.at}
                /\ messages[Len(messages)].error \notin {"", "none"}
           ELSE /\ messages[Len(messages)].level = "INFO"
                /\ messages[Len(messages)].error = ""

\* a rebuild whose bulk update after the second backend raised: the clearing
\* is persisted, and the one message of the request is the ERROR carrying
\* the error of the persistence layer
C15_Witness ==
    /\ lastRun.action = "rebuild"
    /\ lastRun.fault = [at |-> "update_persist", backend |-> 2]
    /\ ~(\E g \in lastRun.sel : table[g].model \notin installed)
    /\ Len(messages) = 1
    /\ messages[1] = [level |-> "ERROR", text |-> "Rebuilding error occured",
                      error |-> "update_persist"]

(* ---- C16 ---- *)
\* the step is a run of clear_indexes
ClearStep == lastRun'.seq # lastRun.seq /\ lastRun'.action = "clear"

\* every selected row is persisted with hints = 0 and updated_at = null, and
\* nothing else of the table is changed
ClearPersisted ==
    /\ DOMAIN table' = DOMAIN table
    /\ \A g \in DOMAIN table :
           table'[g] = IF g \in lastRun'.sel
                       THEN [table[g] EXCEPT !.hints = 0, !.updated_at = None]
                       ELSE table[g]

\* the backends before the k-th have the selected models cleared, and
\* nothing else of the indexes is changed
ClearedBefore(k) ==
    \A i \in 1..Len(BackendNames) : \A m \in DOMAIN solr[BackendNames[i]] :
        solr'[BackendNames[i]][m] =
            IF i < k /\ \E g \in lastRun'.sel : table[g].model = m
            THEN 0 ELSE solr[BackendNames[i]][m]

\* C16 as stated: in _clear_index, if clearing raises on a backend no row of
\* the table changes (the backends cleared before it stay cleared); if no
\* clear raises every selected row is persisted with hints = 0 and
\* updated_at = null and nothing else changes.
C16_Original ==
    [][ClearStep =>
          IF /\ lastRun'.fault.at = "clear"
             /\ \A g \in lastRun'.sel : table[g].model \in installed
          THEN table' = table /\ ClearedBefore(lastRun'.fault.backend)
          ELSE ClearPersisted]_vars

\* C16, amended: in _clear_index the rows are persisted after every backend
\* has been cleared, and only if no step raised: if the model lookup, the
\* clearing on any backend or the bulk update itself raises, no row of the
\* table changes (the backends cleared before the failure stay cleared);
\* if nothing raises every selected row is persisted with hints = 0 and
\* updated_at = null and nothing else changes.
C16_ClearPersistsLast ==
    [][ClearStep =>
          IF \E g \in lastRun'.sel : table[g].model \notin installed
          THEN table' = table /\ solr' = solr
          ELSE IF lastRun'.fault.at = "clear"
          THEN table' = table /\ ClearedBefore(lastRun'.fault.backend)
          ELSE IF lastRun'.fault.at = "clear_persist"
          THEN table' = table /\ ClearedBefore(Len(BackendNames) + 1)
          ELSE ClearPersisted /\ ClearedBefore(Len(BackendNames) + 1)]_vars

\* a clear of the first row that raised on the second backend: the table is
\* as it was, the first backend is cleared and the second is not
C16_Witness ==
    /\ lastRun.seq = 1 /\ lastRun.action = "clear"
    /\ lastRun.sel = {1}
    /\ lastRun.fault = [at |-> "clear", backend |-> 2]
    /\ table = InitialTable
    /\ solr["default"]["app.A"] = 0
    /\ solr["second"]["app.A"] = 1

(* ---- C17 ---- *)
\* the batches are contiguous, ascending, of at most size records each, cover
\* [0, tot) in ceil(tot / size) batches, and each receives the max pk the
\* batch before it returned (the first receives None)
BatchesCover(bs, tot, size) ==
    /\ Len(bs) = (tot + size - 1) \div size
    /\ Len(bs) > 0 => bs[1].start = 0 /\ bs[Len(bs)].end = tot
    /\ \A k \in 1..Len(bs) :
           /\ bs[k].start < bs[k].end
           /\ bs[k].end - bs[k].start <= size
           /\ IF k = 1 THEN bs[k].last_max_pk = None
              ELSE /\ bs[k].start = bs[k - 1].end
                   /\ bs[k].last_max_pk = IntV(bs[k - 1].end)

\* C17: for every record count total >= 0 and batch size >= 1 the batches
\* do_update issues for a record are contiguous, non-overlapping, ascending,
\* of at most batch_size records, and cover exactly [0, total) in
\* ceil(total / batch_size) batches, each receiving the max pk of the one
\* before; after an update that completed, every selected record has its
\* batches on every backend, hints is the count of its index and updated_at
\* the time of the update.
C17_Batches ==
    /\ \A k \in 1..Len(batches) :
           BatchesCover(batches[k].batches, total, batch_size)
    /\ (lastRun.action \in {"update", "rebuild"} /\ ~LastRunRaised) =>
           /\ \A g \in lastRun.sel : \A i \in 1..Len(BackendNames) :
                  \E k \in 1..Len(batches) :
                      /\ batches[k].guid = g
                      /\ batches[k].backend = BackendNames[i]
           /\ Len(batches) = Cardinality(lastRun.sel) * Len(BackendNames)
           /\ \A g \in lastRun.sel :
                  /\ table[g].hints = solr[BackendNames[1]][table[g].model]
                  /\ table[g].hints = total
                  /\ table[g].updated_at = IntV(now - 1)

\* an update of 3 records in batches of 2: the batches [0, 2) and [2, 3), the
\* second receiving the max pk of the first, then hints = 3
C17_Witness ==
    /\ lastRun.action = "update" /\ lastRun.fault = NoFault
    /\ lastRun.sel = {1}
    /\ total = 3 /\ batch_size = 2
    /\ Len(batches) = 2
    /\ batches[1].batches =
           <<[start |-> 0, end |-> 2, last_max_pk |-> None],
             [start |-> 2, end |-> 3, last_max_pk |-> IntV(2)]>>
    /\ table[1].hints = 3
    /\ table[1].updated_at = IntV(1)

\* the table holds at most one row per document name
OneRowPerDocument ==
    \A g, h \in DOMAIN table : table[g].document = table[h].document => g = h

\* request r takes the step of record.save()
SaveStep(r) == requests[r].pc = "save" /\ requests'[r].pc = "loop"

\* an admin action run after request r read its record persisted that row
AdminPersistedSince(r) ==
    /\ requests[r].seen < lastRun.seq
    /\ requests[r].record.guid \in lastRun.sel

\* the save of request r leaves alone every column but hints, and leaves
\* hints alone too when an admin action persisted the row after r read it
SaveKeeps(r) ==
    /\ \A g \in DOMAIN table :
           /\ table'[g].updated_at = table[g].updated_at
           /\ table'[g].document = table[g].document
           /\ table'[g].model = table[g].model
           /\ g # requests[r].record.guid => table'[g] = table[g]
    /\ AdminPersistedSince(r) =>
           table'[requests[r].record.guid].hints
               = table[requests[r].record.guid].hints

\* C18, first half: whatever the interleaving of the requests to
\* FetchIndexesView.post and of the admin actions, no two rows of the Indexes
\* table have the same document name.
C18_OneRowPerDocument == []OneRowPerDocument

\* C18, second half: a save of a fetch changes only the hints of the row it
\* read, and never replaces an updated_at or hints value that an admin action
\* persisted between the fetch's read and its save.
C18_SaveKeepsAdminValues ==
    [][\A r \in Requests : SaveStep(r) => SaveKeeps(r)]_vars

\* C18: after any interleaving of concurrent FetchIndexesView.post requests
\* and admin actions the table holds at most one row per document name, and
\* a fetch changes only the hints of an existing row, never a value an admin
\* action persisted between the fetch's read and its save.
C18_Fetch == C18_OneRowPerDocument /\ C18_SaveKeepsAdminValues

====
